---------------------------- MODULE Spec2Model ----------------------------
(***************************************************************************)
(* A model of the rebml EBML reader: the variable-length integer (VINT)    *)
(* codec, the element-ID and data-size decoders, the element header reader *)
(* and the EBML header assembler, all reading through one std::io::Cursor  *)
(* over an immutable byte buffer.                                          *)
(*                                                                         *)
(* u64 values do not fit TLC's integers, so a u64 is a triple of limbs     *)
(* <<hi, mid, lo>> in base 2^24 (hi < 2^16): value = hi*2^48+mid*2^24+lo.  *)
(***************************************************************************)
EXTENDS Integers, Sequences, FiniteSets, TLC

VARIABLES
    data,       \* the byte buffer behind the cursor (immutable)
    pos,        \* cursor.position()
    last,       \* the last decoder call: its name, start position and result
    pc,         \* position of EbmlHeader::try_from: "idle", "scan", "done"
    start,      \* cursor position when EbmlHeader::try_from was entered
    ebml,       \* the root EbmlElement read by EbmlHeader::try_from
    header,     \* the EbmlHeader under assembly
    outcome,    \* what EbmlHeader::try_from returned: "" (running), "Ok" or an error kind
    reads,      \* start positions and ids of the child headers the scanning loop read
    children    \* the child elements the buffer's root body was laid out from

vars == <<data, pos, last, pc, start, ebml, header, outcome, reads, children>>

--------------------------------------------------------------------------
(* u64 arithmetic on limbs *)

Limb == 2^24

TopLimb == 2^16

U64Zero == <<0, 0, 0>>

\* a small natural number (a cursor position, a length) as a u64
U64FromNat(n) == <<0, n \div Limb, n % Limb>>

\* x * m + a for small m (m * Limb must stay below 2^31), wrapping at 2^64
U64MulAdd(x, m, a) ==
    LET lo == x[3] * m + a
        mid == x[2] * m + (lo \div Limb)
        hi == x[1] * m + (mid \div Limb)
    IN  <<hi % TopLimb, mid % Limb, lo % Limb>>

\* u64 addition, wrapping at 2^64
U64Add(x, y) ==
    LET lo == x[3] + y[3]
        mid == x[2] + y[2] + (lo \div Limb)
        hi == x[1] + y[1] + (mid \div Limb)
    IN  <<hi % TopLimb, mid % Limb, lo % Limb>>

U64Lt(x, y) ==
    \/ x[1] < y[1]
    \/ x[1] = y[1] /\ x[2] < y[2]
    \/ x[1] = y[1] /\ x[2] = y[2] /\ x[3] < y[3]

U64Gt(x, y) == U64Lt(y, x)

\* a u64 below 2^31 (its top limb 0, its middle limb below 2^7) as a natural number
U64ToNat(x) == x[2] * Limb + x[3]

\* the u64 written as a decimal literal, digit by digit
RECURSIVE U64DecFrom(_, _)
U64DecFrom(acc, digits) ==
    IF digits = <<>> THEN acc
    ELSE U64DecFrom(U64MulAdd(acc, 10, Head(digits)), Tail(digits))

U64Dec(digits) == U64DecFrom(U64Zero, digits)

\* the bug of reading the array least-significant octet first
from_le_bytes(b) ==
    << b[8] * 256 + b[7],
       b[6] * 65536 + b[5] * 256 + b[4],
       b[3] * 65536 + b[2] * 256 + b[1] >>

\* u64::from_be_bytes on an [u8; 8]
from_be_bytes(b) ==
    << b[1] * 256 + b[2],
       b[3] * 65536 + b[4] * 256 + b[5],
       b[6] * 65536 + b[7] * 256 + b[8] >>

--------------------------------------------------------------------------
(* u8 operations *)

Bit(x, i) == (x \div (2^i)) % 2

\* u8 ^ u8
Xor8(a, b) ==
    LET X(i) == IF Bit(a, i) # Bit(b, i) THEN 2^i ELSE 0
    IN  X(0) + X(1) + X(2) + X(3) + X(4) + X(5) + X(6) + X(7)

\* u8::leading_zeros
leading_zeros(b) ==
    IF b >= 128 THEN 0
    ELSE IF b >= 64 THEN 1
    ELSE IF b >= 32 THEN 2
    ELSE IF b >= 16 THEN 3
    ELSE IF b >= 8 THEN 4
    ELSE IF b >= 4 THEN 5
    ELSE IF b >= 2 THEN 6
    ELSE IF b >= 1 THEN 7
    ELSE 8

--------------------------------------------------------------------------
(* std::io::Cursor<&[u8]> *)

Min(a, b) == IF a < b THEN a ELSE b

\* the octets left at position p
Remaining(d, p) == IF p >= Len(d) THEN 0 ELSE Len(d) - p

\* Read::read into a slice of n octets: copies what is there, at most n, and
\* advances the position by the number copied
CursorRead(d, p, n) ==
    LET k == Min(n, Remaining(d, p))
    IN  [n |-> k, bytes |-> SubSeq(d, p + 1, p + k), pos |-> p + k]

--------------------------------------------------------------------------
(* results *)

Ok(v, p) == [ok |-> TRUE, err |-> "", val |-> v, pos |-> p]

Err(e, p) == [ok |-> FALSE, err |-> e, val |-> <<>>, pos |-> p]

\* the ? operator: the error of r is returned, or the rest of the function runs.
\* r is a value computed once and then bound, as a Rust expression is.
Try(r, Rest(_)) ==
    CHOOSE y \in {IF x.ok THEN Rest(x) ELSE Err(x.err, x.pos) : x \in {r}} : TRUE

\* match r { Ok(v) => ..., Err(e) => ... }
Match(r, OnOk(_), OnErr(_)) ==
    CHOOSE y \in {IF x.ok THEN OnOk(x) ELSE OnErr(x) : x \in {r}} : TRUE

--------------------------------------------------------------------------
(* VarIntLength *)

\* VarIntLength::new: the enum variant as its octet count
VarIntLength_new(num_bytes) ==
    IF num_bytes \in 1..8 THEN [ok |-> TRUE, err |-> "", val |-> num_bytes]
    ELSE [ok |-> FALSE, err |-> "InvalidVarIntLength", val |-> 0]

\* the decimal literals of maximum_value
Max_One == U64Dec(<<1,2,7>>)

Max_Two == U64Dec(<<1,6,3,8,3>>)

Max_Three == U64Dec(<<2,0,9,7,1,5,1>>)

Max_Four == U64Dec(<<2,6,8,4,3,5,4,5,5>>)

Max_Five == U64Dec(<<3,4,3,5,9,7,3,8,3,6,7>>)

Max_Six == U64Dec(<<4,3,9,8,0,4,6,5,1,1,1,0,3>>)

Max_Seven == U64Dec(<<5,6,2,9,4,9,9,5,3,4,2,1,3,1,1>>)

Max_Eight == U64Dec(<<7,2,0,5,7,5,9,4,0,3,7,9,2,7,9,3,5>>)

\* 2^56
Max_Eight_plus_one == U64Dec(<<7,2,0,5,7,5,9,4,0,3,7,9,2,7,9,3,6>>)

\* the bug of a table whose last entry is 2^56, not 2^56 - 1
maximum_value_off_by_one(length) ==
    CASE length = 1 -> Max_One
      [] length = 2 -> Max_Two
      [] length = 3 -> Max_Three
      [] length = 4 -> Max_Four
      [] length = 5 -> Max_Five
      [] length = 6 -> Max_Six
      [] length = 7 -> Max_Seven
      [] length = 8 -> Max_Eight_plus_one

maximum_value(length) ==
    CASE length = 1 -> Max_One
      [] length = 2 -> Max_Two
      [] length = 3 -> Max_Three
      [] length = 4 -> Max_Four
      [] length = 5 -> Max_Five
      [] length = 6 -> Max_Six
      [] length = 7 -> Max_Seven
      [] length = 8 -> Max_Eight

--------------------------------------------------------------------------
(* VarInt *)

ZeroBytes == <<0, 0, 0, 0, 0, 0, 0, 0>>

\* the bug of reporting an empty buffer as a truncated VINT
get_var_int_length_wrong_kind(d, p) ==
    LET r == CursorRead(d, p, 1)
    IN  IF r.n = 1
        THEN LET b0 == r.bytes[1]
                 zeros == leading_zeros(b0)
                 num_bytes == zeros + 1
                 shift == 8 - num_bytes
             IN  IF zeros = 8 THEN Err("VarIntNoLength", r.pos)
                 ELSE Ok([num_bytes |-> num_bytes,
                          masked_value |-> Xor8(b0, 2^shift),
                          first_byte |-> b0], r.pos)
        ELSE Err("VarIntEndedEarly", r.pos)

get_var_int_length(d, p) ==
    LET r == CursorRead(d, p, 1)
    IN  IF r.n = 1
        THEN LET b0 == r.bytes[1]
                 zeros == leading_zeros(b0)
                 num_bytes == zeros + 1
                 shift == 8 - num_bytes
             IN  IF zeros = 8 THEN Err("VarIntNoLength", r.pos)
                 ELSE Ok([num_bytes |-> num_bytes,
                          masked_value |-> Xor8(b0, 2^shift),
                          first_byte |-> b0], r.pos)
        ELSE Err("NoData", r.pos)

\* the bug of reading into bytes[first_index..]: one octet more than the VINT has left
get_var_int_value_overread(d, p, first_byte, num_bytes) ==
    LET first_index == 8 - num_bytes
        bytes0 == [ZeroBytes EXCEPT ![first_index + 1] = first_byte]
    IN  IF num_bytes > 1
        THEN LET expected_read_amount == num_bytes - 1
                 r == CursorRead(d, p, 8 - first_index)
                 bytes1 == [i \in 1..8 |->
                              IF i > first_index /\ i - first_index <= r.n
                              THEN r.bytes[i - first_index]
                              ELSE bytes0[i]]
             IN  IF r.n < expected_read_amount
                 THEN Err("VarIntEndedEarly", r.pos)
                 ELSE Ok(bytes1, r.pos)
        ELSE Ok(bytes0, p)

get_var_int_value(d, p, first_byte, num_bytes) ==
    LET first_index == 8 - num_bytes          \* 0-based, as in the source
        bytes0 == [ZeroBytes EXCEPT ![first_index + 1] = first_byte]
    IN  IF num_bytes > 1
        THEN LET expected_read_amount == num_bytes - 1
                 r == CursorRead(d, p, 8 - (first_index + 1))
                 bytes1 == [i \in 1..8 |->
                              IF i > first_index + 1 /\ i - (first_index + 1) <= r.n
                              THEN r.bytes[i - (first_index + 1)]
                              ELSE bytes0[i]]
             IN  IF r.n < expected_read_amount
                 THEN Err("VarIntEndedEarly", r.pos)
                 ELSE Ok(bytes1, r.pos)
        ELSE Ok(bytes0, p)

\* the VarInt built from the octets read: raw_value has the first octet put back
VarInt_build(num_bytes, first_byte, varint, p) ==
    LET raw_value == [varint EXCEPT ![8 - num_bytes + 1] = first_byte]
        len == VarIntLength_new(num_bytes)
    IN  IF ~len.ok THEN Err(len.err, p)
        ELSE Ok([length |-> len.val,
                 bytes |-> varint,
                 raw_value |-> from_be_bytes(raw_value),
                 value |-> from_be_bytes(varint)], p)

get_var_int(d, p) ==
    Try(get_var_int_length(d, p), LAMBDA l :
        IF l.val.num_bytes > 8 \/ l.val.num_bytes = 0
        THEN Err("InvalidVarIntLength", l.pos)
        ELSE Try(get_var_int_value(d, l.pos, l.val.masked_value, l.val.num_bytes),
                 LAMBDA v : VarInt_build(l.val.num_bytes, l.val.first_byte, v.val, v.pos)))

all_ones(varint) == varint.value = maximum_value(varint.length)

--------------------------------------------------------------------------
(* element ID and data size decoders *)

is_shortest_valid_element_id_length(varint) ==
    CASE varint.length = 1 -> TRUE
      [] varint.length = 2 -> U64Gt(varint.value, maximum_value(1))
      [] varint.length = 3 -> U64Gt(varint.value, maximum_value(2))
      [] varint.length = 4 -> U64Gt(varint.value, maximum_value(3))
      [] varint.length = 5 -> U64Gt(varint.value, maximum_value(4))
      [] varint.length = 6 -> U64Gt(varint.value, maximum_value(5))
      [] varint.length = 7 -> U64Gt(varint.value, maximum_value(6))
      [] varint.length = 8 -> U64Gt(varint.value, maximum_value(7))

\* the bug of testing the shortest-form rule before the all-zeros and all-ones rules
get_element_id_shortest_first(d, p) ==
    Try(get_var_int(d, p), LAMBDA r :
        IF r.val.length > 4 THEN Err("InvalidElementIdSize", r.pos)
        ELSE IF ~is_shortest_valid_element_id_length(r.val)
             THEN Err("ElementIdLongerThanNeeded", r.pos)
        ELSE IF r.val.value = U64Zero THEN Err("ElementIdAllZeros", r.pos)
        ELSE IF all_ones(r.val) THEN Err("ElementIdAllOnes", r.pos)
        ELSE Ok(r.val.raw_value, r.pos))

get_element_id(d, p) ==
    Try(get_var_int(d, p), LAMBDA r :
        IF r.val.length > 4 THEN Err("InvalidElementIdSize", r.pos)
        ELSE IF r.val.value = U64Zero THEN Err("ElementIdAllZeros", r.pos)
        ELSE IF all_ones(r.val) THEN Err("ElementIdAllOnes", r.pos)
        ELSE IF is_shortest_valid_element_id_length(r.val)
             THEN Ok(r.val.raw_value, r.pos)
             ELSE Err("ElementIdLongerThanNeeded", r.pos))

get_data_size(d, p) == get_var_int(d, p)

--------------------------------------------------------------------------
(* EbmlElement: the element header reader *)

\* the bug of recording the end position as the header length
EbmlElement_try_from_end_as_length(d, p) ==
    Match(get_element_id(d, p),
          LAMBDA id :
              Match(get_data_size(d, id.pos),
                    LAMBDA size :
                        Ok([id |-> id.val, size |-> size.val, length |-> size.pos],
                           size.pos),
                    LAMBDA e : Err("ElementIdAllOnes", e.pos)),
          LAMBDA e : Err("ElementIdAllOnes", e.pos))

\* start is p, end is the position after the size
EbmlElement_try_from(d, p) ==
    Match(get_element_id(d, p),
          LAMBDA id :
              Match(get_data_size(d, id.pos),
                    LAMBDA size :
                        Ok([id |-> id.val, size |-> size.val, length |-> size.pos - p],
                           size.pos),
                    LAMBDA e : Err("ElementIdAllOnes", e.pos)),
          LAMBDA e : Err("ElementIdAllOnes", e.pos))

--------------------------------------------------------------------------
(* scalar values *)

\* get_data(size, cursor): the size octets at the cursor, consumed; NoData when
\* fewer remain
get_data(size, d, p) ==
    IF U64Lt(U64FromNat(Remaining(d, p)), size) THEN Err("NoData", p)
    ELSE Ok(SubSeq(d, p + 1, p + U64ToNat(size)), p + U64ToNat(size))

\* the scan of EbmlString::new: it stops at the first octet (0-based index) that
\* is zero or outside 0x20..0x7E, and is bad when that octet is not zero
StringScan(b) ==
    LET stops == {i \in 0..(Len(b) - 1) : b[i + 1] = 0 \/ b[i + 1] < 32 \/ b[i + 1] > 126}
    IN  IF stops = {} THEN [bad |-> FALSE, end |-> Len(b)]
        ELSE LET first == CHOOSE i \in stops : \A j \in stops : i <= j
             IN  IF (b[first + 1] < 32 \/ b[first + 1] > 126) /\ b[first + 1] # 0
                 THEN [bad |-> TRUE, end |-> first]
                 ELSE [bad |-> FALSE, end |-> first]

\* CompactString::from_utf8 on octets: 7-bit octets are valid UTF-8 as they are
from_utf8(b) ==
    IF \A i \in 1..Len(b) : b[i] < 128 THEN [ok |-> TRUE, val |-> b]
    ELSE [ok |-> FALSE, val |-> <<>>]

EbmlString_new(b) ==
    LET scan == StringScan(b)
    IN  IF scan.bad THEN [ok |-> FALSE, err |-> "InvalidString", val |-> <<>>]
        ELSE LET text == from_utf8(SubSeq(b, 1, scan.end))
             IN  IF ~text.ok THEN [ok |-> FALSE, err |-> "InvalidString", val |-> <<>>]
                 ELSE [ok |-> TRUE, err |-> "",
                       val |-> [value |-> text.val, full_end |-> Len(b), end |-> scan.end]]

\* the bug of filling the array from its front: short ranges end up extended
\* on the least-significant side
EbmlUnsignedInteger_new_left_aligned(b) ==
    IF Len(b) > 8 THEN [ok |-> FALSE, err |-> "OverMaximumSize(8)", val |-> <<>>]
    ELSE LET filled == [i \in 1..8 |-> IF i <= Len(b) THEN b[i] ELSE 0]
         IN  [ok |-> TRUE, err |-> "", val |-> [value |-> from_be_bytes(filled)]]

EbmlUnsignedInteger_new(b) ==
    IF Len(b) > 8 THEN [ok |-> FALSE, err |-> "OverMaximumSize(8)", val |-> <<>>]
    ELSE LET \* bytes[i] = the i-th octet from the end, then the array reversed
             filled == [i \in 1..8 |-> IF i <= Len(b) THEN b[Len(b) + 1 - i] ELSE 0]
             reversed == [i \in 1..8 |-> filled[9 - i]]
         IN  [ok |-> TRUE, err |-> "", val |-> [value |-> from_be_bytes(reversed)]]

\* size.value as usize: usize is 64 bits wide on the targets modelled, so the
\* cast keeps the value
as_usize(x) == x

\* the bug of refusing a range that ends exactly at the buffer's end
EbmlBinary_new_strict(size, d, p) ==
    LET data_ref == SubSeq(d, p + 1, Len(d))
    IN  IF ~U64Lt(as_usize(size.value), U64FromNat(Len(data_ref)))
        THEN Err("NoData", p)
        ELSE Ok([size |-> size.value, index |-> p,
                 data |-> SubSeq(data_ref, 1, U64ToNat(as_usize(size.value)))], p)

\* EbmlBinary::new: the cursor is read (position, get_ref) and never moved
EbmlBinary_new(size, d, p) ==
    LET data_ref == SubSeq(d, p + 1, Len(d))
    IN  IF U64Lt(U64FromNat(Len(data_ref)), as_usize(size.value))
        THEN Err("NoData", p)
        ELSE Ok([size |-> size.value, index |-> p,
                 data |-> SubSeq(data_ref, 1, U64ToNat(as_usize(size.value)))], p)

--------------------------------------------------------------------------
(* element IDs *)

\* a u64 written as a hexadecimal literal, digit by digit
RECURSIVE U64HexFrom(_, _)
U64HexFrom(acc, digits) ==
    IF digits = <<>> THEN acc
    ELSE U64HexFrom(U64MulAdd(acc, 16, Head(digits)), Tail(digits))

U64Hex(digits) == U64HexFrom(U64Zero, digits)

Ebml_ID == U64Hex(<<1, 10, 4, 5, 13, 15, 10, 3>>)

EbmlVersion_ID == U64Hex(<<4, 2, 8, 6>>)

EbmlReadVersion_ID == U64Hex(<<4, 2, 15, 7>>)

EbmlMaxIdLength_ID == U64Hex(<<4, 2, 15, 2>>)

EbmlMaxSizeLength_ID == U64Hex(<<4, 2, 15, 3>>)

DocType_ID == U64Hex(<<4, 2, 8, 2>>)

DocTypeVersion_ID == U64Hex(<<4, 2, 8, 7>>)

DocTypeReadVersion_ID == U64Hex(<<4, 2, 8, 5>>)

DocTypeExtension_ID == U64Hex(<<4, 2, 8, 1>>)

DocTypeExtensionName_ID == U64Hex(<<4, 2, 8, 3>>)

DocTypeExtensionVersion_ID == U64Hex(<<4, 2, 8, 4>>)

--------------------------------------------------------------------------
(* EbmlHeader: the header assembler *)

None == <<>>

Some(x) == <<x>>

\* EbmlHeader::default()
EmptyHeader ==
    [version |-> None, read_version |-> None, max_id_length |-> None,
     max_size_length |-> None, doc_type |-> None, doc_type_version |-> None,
     doc_type_read_version |-> None, doc_type_extensions |-> None]

\* an iteration of the scanning loop that returned an error
Failed(e, p, h, id) == [ok |-> FALSE, err |-> e, pos |-> p, header |-> h, id |-> id]

\* an iteration of the scanning loop that went on
Scanned(p, h, id) == [ok |-> TRUE, err |-> "", pos |-> p, header |-> h, id |-> id]

\* a scalar decoder's result at cursor position p
At(v, p) == [ok |-> v.ok, err |-> v.err, val |-> v.val, pos |-> p]

\* an arm that reads an unsigned integer body into a field
UnsignedArm(d, p, h, element, field) ==
    Match(get_data(element.size.value, d, p),
          LAMBDA body :
              Match(At(EbmlUnsignedInteger_new(body.val), body.pos),
                    LAMBDA v : Scanned(v.pos, [h EXCEPT ![field] = Some(v.val)],
                                       Some(element.id)),
                    LAMBDA e : Failed(e.err, e.pos, h, Some(element.id))),
          LAMBDA e : Failed(e.err, e.pos, h, Some(element.id)))

\* the DocType arm
StringArm(d, p, h, element, field) ==
    Match(get_data(element.size.value, d, p),
          LAMBDA body :
              Match(At(EbmlString_new(body.val), body.pos),
                    LAMBDA v : Scanned(v.pos, [h EXCEPT ![field] = Some(v.val)],
                                       Some(element.id)),
                    LAMBDA e : Failed(e.err, e.pos, h, Some(element.id))),
          LAMBDA e : Failed(e.err, e.pos, h, Some(element.id)))

\* DocTypeExtension::new
DocTypeExtension_new(name, version) == [name |-> name, version |-> version]

\* a name and a version decoded, name first, into one extension
NameAndVersion(name_data, version_data, p) ==
    Try(At(EbmlString_new(name_data), p), LAMBDA name :
        Try(At(EbmlUnsignedInteger_new(version_data), p), LAMBDA version :
            Ok(DocTypeExtension_new(name.val, version.val), p)))

\* the bug of taking the first child as the name and the second as the version
ExtensionPair_by_position(first_id, first_data, second_id, second_data, p) ==
    IF {first_id, second_id} = {DocTypeExtensionName_ID, DocTypeExtensionVersion_ID}
    THEN NameAndVersion(first_data, second_data, p)
    ELSE Err("InvalidElement", p)

\* the two children of a DocTypeExtension group as one extension
ExtensionPair(first_id, first_data, second_id, second_data, p) ==
    IF first_id = DocTypeExtensionName_ID /\ second_id = DocTypeExtensionVersion_ID
    THEN NameAndVersion(first_data, second_data, p)
    ELSE IF first_id = DocTypeExtensionVersion_ID /\ second_id = DocTypeExtensionName_ID
    THEN NameAndVersion(second_data, first_data, p)
    ELSE Err("InvalidElement", p)

\* header.doc_type_extensions with one more extension
PushExtension(h, extension) ==
    [h EXCEPT !.doc_type_extensions =
        IF @ = None THEN Some(<<extension>>) ELSE Some(Append(@[1], extension))]

\* the DocTypeExtension arm
ExtensionArm(d, p, h, element) ==
    Match(Try(EbmlElement_try_from(d, p), LAMBDA first_element :
          Try(get_data(first_element.val.size.value, d, first_element.pos), LAMBDA first_data :
          Try(EbmlElement_try_from(d, first_data.pos), LAMBDA second_element :
          Try(get_data(second_element.val.size.value, d, second_element.pos), LAMBDA second_data :
              ExtensionPair(first_element.val.id, first_data.val,
                            second_element.val.id, second_data.val, second_data.pos))))),
          LAMBDA extension : Scanned(extension.pos, PushExtension(h, extension.val),
                                     Some(element.id)),
          LAMBDA e : Failed(e.err, e.pos, h, Some(element.id)))

\* the bug of seeking back to the start of an element the header does not know
\* and scanning on
Dispatch_rewinds(d, q, h, element) ==
    CASE element.id = EbmlVersion_ID -> UnsignedArm(d, q, h, element, "version")
      [] element.id = DocType_ID -> StringArm(d, q, h, element, "doc_type")
      [] element.id = DocTypeVersion_ID -> UnsignedArm(d, q, h, element, "doc_type_version")
      [] element.id = DocTypeReadVersion_ID ->
             UnsignedArm(d, q, h, element, "doc_type_read_version")
      [] element.id = EbmlReadVersion_ID -> UnsignedArm(d, q, h, element, "read_version")
      [] element.id = EbmlMaxIdLength_ID -> UnsignedArm(d, q, h, element, "max_id_length")
      [] element.id = EbmlMaxSizeLength_ID ->
             UnsignedArm(d, q, h, element, "max_size_length")
      [] element.id = DocTypeExtension_ID -> ExtensionArm(d, q, h, element)
      [] OTHER -> Scanned(q - element.length, h, Some(element.id))

\* the arm of the child header just read
Dispatch(d, q, h, element) ==
    CASE element.id = EbmlVersion_ID -> UnsignedArm(d, q, h, element, "version")
      [] element.id = DocType_ID -> StringArm(d, q, h, element, "doc_type")
      [] element.id = DocTypeVersion_ID -> UnsignedArm(d, q, h, element, "doc_type_version")
      [] element.id = DocTypeReadVersion_ID ->
             UnsignedArm(d, q, h, element, "doc_type_read_version")
      [] element.id = EbmlReadVersion_ID -> UnsignedArm(d, q, h, element, "read_version")
      [] element.id = EbmlMaxIdLength_ID -> UnsignedArm(d, q, h, element, "max_id_length")
      [] element.id = EbmlMaxSizeLength_ID ->
             UnsignedArm(d, q, h, element, "max_size_length")
      [] element.id = DocTypeExtension_ID -> ExtensionArm(d, q, h, element)
      [] OTHER -> Failed("InvalidElement", q, h, Some(element.id))

\* the bug of skipping the body of an element the header does not know
scan_child_skips_unknown(d, p, h) ==
    Match(EbmlElement_try_from(d, p),
          LAMBDA r :
              IF r.val.id \in {EbmlVersion_ID, DocType_ID, DocTypeVersion_ID,
                               DocTypeReadVersion_ID, EbmlReadVersion_ID,
                               EbmlMaxIdLength_ID, EbmlMaxSizeLength_ID,
                               DocTypeExtension_ID}
              THEN Dispatch(d, r.pos, h, r.val)
              ELSE Match(get_data(r.val.size.value, d, r.pos),
                         LAMBDA body : Scanned(body.pos, h, Some(r.val.id)),
                         LAMBDA e : Failed(e.err, e.pos, h, Some(r.val.id))),
          LAMBDA e : Failed(e.err, e.pos, h, None))

\* one iteration of the scanning loop: a child header and its arm
scan_child(d, p, h) ==
    Match(EbmlElement_try_from(d, p),
          LAMBDA r : Dispatch(d, r.pos, h, r.val),
          LAMBDA e : Failed(e.err, e.pos, h, None))

\* the condition of the scanning loop
scan_condition(p, root) ==
    U64Lt(U64FromNat(p), U64Add(root.size.value, U64FromNat(root.length)))

--------------------------------------------------------------------------
(* buffers *)

\* the longest buffer of the VINT codec's runs
MaxLen == 8

\* the longest buffer of the ID decoder's and header reader's runs
MaxIdLen == 5

\* leading octets: every VINT length, the all-zero octet, all-ones and zero values
FirstBytes == {0, 1, 2, 3, 7, 8, 15, 16, 24, 31, 32, 63, 64, 66, 127, 128, 130, 255}

TailBytes == {0, 129, 255}

SeqsUpTo(S, n) == UNION {[1..k -> S] : k \in 0..n}

\* the buffers of the tests of lib.rs, and the boundary values of each length
TestVectors ==
    { <<66, 1>>, <<66, 1, 129>>,
      <<66, 1, 129, 129, 129, 129, 129, 129>>,
      <<1, 0, 0, 0, 0, 0, 0, 3>>,
      <<130>>, <<66>>,
      <<24, 0, 0, 0>>, <<255>>, <<128>>, <<8, 0, 0, 0, 1>>,
      <<127, 255>>, <<64, 0>>,
      <<64, 127>>, <<64, 128>>, <<32, 63, 255>>, <<32, 64, 0>>,
      <<16, 31, 255, 255>>, <<16, 32, 0, 0>>, <<64, 127, 129>>, <<16, 0, 0, 1, 129>>,
      <<26, 69, 223, 163, 132>>, <<66, 134, 129, 1>>, <<236, 128>>, <<191, 132>> }

VarIntBuffers ==
    {<<>>} \cup TestVectors
      \cup { <<f>> \o t : f \in FirstBytes, t \in SeqsUpTo(TailBytes, MaxLen - 1) }

IdBuffers ==
    {<<>>} \cup TestVectors
      \cup { <<f>> \o t : f \in FirstBytes, t \in SeqsUpTo(TailBytes, MaxIdLen - 1) }

--------------------------------------------------------------------------
(* the VINT codec: repeated decodes on one cursor *)

NoCall == [op |-> "none", start |-> 0, count |-> 0, failed |-> FALSE, res |-> Err("", 0)]

NoElement == [id |-> U64Zero, size |-> [length |-> 1, bytes |-> ZeroBytes,
                                        raw_value |-> U64Zero, value |-> U64Zero],
              length |-> 0]

IdleRest ==
    /\ pc = "idle"
    /\ start = 0
    /\ ebml = NoElement
    /\ header = EmptyHeader
    /\ outcome = ""
    /\ reads = <<>>
    /\ children = <<>>

Init ==
    /\ data \in VarIntBuffers
    /\ pos = 0
    /\ last = NoCall
    /\ IdleRest

Call(op, r) ==
    /\ pos' = r.pos
    /\ last' = [op |-> op, start |-> pos,
                count |-> IF r.ok THEN last.count + 1 ELSE last.count,
                failed |-> last.failed \/ ~r.ok, res |-> r]
    /\ UNCHANGED <<data, pc, start, ebml, header, outcome, reads, children>>

DecodeVarInt ==
    /\ pc = "idle"
    /\ Call("get_var_int", get_var_int(data, pos))

Next == DecodeVarInt

Spec == Init /\ [][Next]_vars

--------------------------------------------------------------------------
(* the ID decoder, the size decoder and the header reader on one cursor *)

InitId ==
    /\ data \in IdBuffers
    /\ pos = 0
    /\ last = NoCall
    /\ IdleRest

DecodeElementId ==
    /\ pc = "idle"
    /\ Call("get_element_id", get_element_id(data, pos))

DecodeDataSize ==
    /\ pc = "idle"
    /\ Call("get_data_size", get_data_size(data, pos))

ReadHeader ==
    /\ pc = "idle"
    /\ Call("read_header", EbmlElement_try_from(data, pos))

NextId == DecodeElementId \/ DecodeDataSize \/ ReadHeader

SpecId == InitId /\ [][NextId]_vars

--------------------------------------------------------------------------
(* the wire format, stated from the octets alone *)

\* the length a VINT's non-zero first octet announces: its leading 1-bit is bit 8 - L
WireLength(b) == CHOOSE L \in 1..8 : 2^(8 - L) <= b /\ b < 2^(9 - L)

\* the big-endian integer a sequence of at most 8 octets forms
RECURSIVE BigEndianFrom(_, _)
BigEndianFrom(acc, octets) ==
    IF octets = <<>> THEN acc
    ELSE BigEndianFrom(U64MulAdd(U64MulAdd(acc, 16, 0), 16, Head(octets)), Tail(octets))

BigEndian(octets) == BigEndianFrom(U64Zero, octets)

\* 2^(7n) - 1 as a u64: n groups of seven 1-bits
RECURSIVE SevenBitOnes(_)
SevenBitOnes(n) ==
    IF n = 0 THEN U64Zero
    ELSE U64MulAdd(U64MulAdd(SevenBitOnes(n - 1), 16, 15), 8, 7)

\* a whole VINT lies at position p of d
WireVintAt(d, p) ==
    /\ p < Len(d)
    /\ d[p + 1] # 0
    /\ Len(d) - p >= WireLength(d[p + 1])

\* its octets, and its octets with the marker bit cleared
WireOctets(d, p) == SubSeq(d, p + 1, p + WireLength(d[p + 1]))

WireUnmarked(d, p) ==
    LET o == WireOctets(d, p)
    IN  [o EXCEPT ![1] = o[1] - 2^(8 - WireLength(o[1]))]

\* the positions of the consecutive whole VINTs of d from position p on
RECURSIVE WireVints(_, _)
WireVints(d, p) ==
    IF WireVintAt(d, p) THEN <<p>> \o WireVints(d, p + WireLength(d[p + 1])) ELSE <<>>

--------------------------------------------------------------------------
(* C1..C4: the VINT codec *)

VarIntCall == last.op = "get_var_int"

\* C1: on a buffer whose first octet at the cursor is non-zero and that holds the
\* L = 1 + leading-zero-bits octets it announces, get_var_int succeeds with
\* length L, value the big-endian integer of the L octets with the marker bit
\* cleared, and raw_value the big-endian integer of the L octets as they are.
C1_Decode ==
    (VarIntCall /\ WireVintAt(data, last.start)) =>
        /\ last.res.ok
        /\ last.res.val.length = WireLength(data[last.start + 1])
        /\ last.res.val.value = BigEndian(WireUnmarked(data, last.start))
        /\ last.res.val.raw_value = BigEndian(WireOctets(data, last.start))

\* an 8-octet VINT (first octet 0x01) decoded to the value 3
C1_Witness ==
    /\ VarIntCall /\ WireVintAt(data, last.start)
    /\ last.res.ok /\ last.res.val.length = 8
    /\ last.res.val.value = <<0, 0, 3>>
    /\ last.res.val.raw_value = <<256, 0, 3>>

\* C2: a successful get_var_int advances the cursor by exactly length octets, so
\* the k-th of consecutive successful decodes returns the k-th consecutive VINT
\* of the buffer; a failed one leaves the cursor advanced by the octets it
\* consumed (0 for NoData, 1 for VarIntNoLength, all that remained for
\* VarIntEndedEarly), and the cursor never moves back.
C2_Cursor ==
    VarIntCall =>
        /\ pos >= last.start
        /\ last.res.ok => pos = last.start + last.res.val.length
        /\ (last.res.ok /\ ~last.failed) =>
              LET vints == WireVints(data, 0)
              IN  /\ last.count <= Len(vints)
                  /\ vints[last.count] = last.start
                  /\ last.res.val.value = BigEndian(WireUnmarked(data, last.start))
        /\ last.res.err = "NoData" => pos = last.start
        /\ last.res.err = "VarIntNoLength" => pos = last.start + 1
        /\ last.res.err = "VarIntEndedEarly" => pos = Len(data) /\ pos > last.start

\* the second of two back-to-back decodes: 513 was read from octets 0..1, then 1
C2_Witness ==
    /\ VarIntCall /\ last.res.ok /\ ~last.failed
    /\ last.count = 2 /\ last.start = 2 /\ pos = 3
    /\ data = <<66, 1, 129>>
    /\ last.res.val.value = <<0, 0, 1>>

\* C3: get_var_int fails with NoData exactly when no octet is at the cursor, with
\* VarIntNoLength exactly when the first octet is 0x00, with VarIntEndedEarly
\* exactly when the first octet is non-zero and fewer than length - 1 further
\* octets are there; in every other case it succeeds, and it never returns
\* InvalidVarIntLength.
C3_Errors ==
    VarIntCall =>
        LET s == last.start
            none == s >= Len(data)
            zero == ~none /\ data[s + 1] = 0
            short == ~none /\ data[s + 1] # 0
                       /\ Len(data) - (s + 1) < WireLength(data[s + 1]) - 1
        IN  /\ (last.res.err = "NoData") <=> none
            /\ (last.res.err = "VarIntNoLength") <=> zero
            /\ (last.res.err = "VarIntEndedEarly") <=> short
            /\ last.res.ok <=> ~(none \/ zero \/ short)
            /\ last.res.err # "InvalidVarIntLength"

\* a 4-octet VINT cut after its second octet
C3_Witness ==
    /\ VarIntCall /\ last.res.err = "VarIntEndedEarly"
    /\ last.start < Len(data) /\ WireLength(data[last.start + 1]) = 4
    /\ Len(data) - last.start = 2

\* the value bits of the VINT at p are all set
WireAllOnes(d, p) ==
    LET o == WireOctets(d, p)
    IN  /\ o[1] = 2^(9 - Len(o)) - 1
        /\ \A i \in 2..Len(o) : o[i] = 255

\* C4: all_ones() is true of a decoded VarInt of length L exactly when all 7*L
\* value bits of its encoding are set, that is when value = 2^(7L) - 1; the
\* same number decoded from a longer encoding is not all_ones().
C4_AllOnes ==
    (VarIntCall /\ last.res.ok) =>
        LET v == last.res.val
        IN  /\ all_ones(v) <=> WireAllOnes(data, last.start)
            /\ all_ones(v) <=> v.value = SevenBitOnes(v.length)
            /\ \A shorter \in 1..(v.length - 1) :
                  v.value = SevenBitOnes(shorter) => ~all_ones(v)

\* the unknown-size sentinel of length 8: 0x01 and seven 0xFF octets
C4_Witness ==
    /\ VarIntCall /\ last.res.ok /\ last.res.val.length = 8
    /\ all_ones(last.res.val)
    /\ WireAllOnes(data, last.start)

\* 127 in two octets (0x40 0x7F): the value of the 1-octet sentinel, not a sentinel
C4_WitnessLonger ==
    /\ VarIntCall /\ last.res.ok /\ last.res.val.length = 2
    /\ last.res.val.value = SevenBitOnes(1)
    /\ ~all_ones(last.res.val)

--------------------------------------------------------------------------
(* C5, C6: the element-ID decoder and the element header reader *)

\* the rule a whole VINT at p breaks as an element ID, "" when it breaks none
WireIdVerdict(d, p) ==
    LET L == WireLength(d[p + 1])
        value == BigEndian(WireUnmarked(d, p))
    IN  IF L > 4 THEN "InvalidElementIdSize"
        ELSE IF value = U64Zero THEN "ElementIdAllZeros"
        ELSE IF WireAllOnes(d, p) THEN "ElementIdAllOnes"
        ELSE IF L > 1 /\ ~U64Lt(SevenBitOnes(L - 1), value)
             THEN "ElementIdLongerThanNeeded"
        ELSE ""

IdCall == last.op = "get_element_id"

\* C5: get_element_id classifies every successfully decoded VINT in this order:
\* length > 4 is InvalidElementIdSize; else value 0 is ElementIdAllZeros; else
\* all_ones() is ElementIdAllOnes; else length > 1 with value <= the maximum of
\* the next-shorter length is ElementIdLongerThanNeeded; otherwise it returns
\* raw_value. So [0x40, 0x00] is ElementIdAllZeros, and an accepted ID has
\* length 1..4 and the least length that holds its value.
C5_ElementId ==
    (IdCall /\ WireVintAt(data, last.start)) =>
        LET s == last.start
            L == WireLength(data[s + 1])
            value == BigEndian(WireUnmarked(data, s))
        IN  /\ last.res.err = WireIdVerdict(data, s)
            /\ last.res.ok <=> WireIdVerdict(data, s) = ""
            /\ last.res.ok =>
                  /\ last.res.val = BigEndian(WireOctets(data, s))
                  /\ L \in 1..4
                  /\ \A shorter \in 1..(L - 1) : U64Gt(value, SevenBitOnes(shorter))
            /\ WireOctets(data, s) = <<64, 0>> => last.res.err = "ElementIdAllZeros"

\* [0x40, 0x00]: a zero value in two octets, rejected as all zeros
C5_Witness ==
    /\ IdCall /\ WireVintAt(data, last.start)
    /\ WireOctets(data, last.start) = <<64, 0>>
    /\ last.res.err = "ElementIdAllZeros"

\* [0x18, 0, 0, 0]: accepted with its marker bit, 0x18000000
C5_WitnessAccepted ==
    /\ IdCall /\ last.res.ok
    /\ WireOctets(data, last.start) = <<24, 0, 0, 0>>
    /\ last.res.val = <<0, 24, 0>>

HeaderCall == last.op = "read_header"

\* C6: when read_header succeeds from position s, its id is what get_element_id
\* returns at s, its size what get_data_size returns right after the ID, its
\* length the ID's octets plus the size's octets, and the cursor is at
\* s + length, the first octet of the body.
C6_ReadHeader ==
    (HeaderCall /\ last.res.ok) =>
        LET s == last.start
            e == last.res.val
            idLen == WireLength(data[s + 1])
            sizeLen == WireLength(data[s + idLen + 1])
        IN  /\ WireVintAt(data, s)
            /\ WireIdVerdict(data, s) = ""
            /\ e.id = BigEndian(WireOctets(data, s))
            /\ e.id = get_element_id(data, s).val
            /\ WireVintAt(data, s + idLen)
            /\ e.size.length = sizeLen
            /\ e.size.value = BigEndian(WireUnmarked(data, s + idLen))
            /\ e.size.raw_value = BigEndian(WireOctets(data, s + idLen))
            /\ e.size = get_data_size(data, s + idLen).val
            /\ e.length = idLen + sizeLen
            /\ pos = s + e.length

\* a header read from a position past 0: a 1-octet ID and a 1-octet size
C6_Witness ==
    /\ HeaderCall /\ last.res.ok
    /\ last.start > 0
    /\ last.res.val.length = 2
    /\ pos = last.start + 2

\* the EBML root header 1A 45 DF A3 84: ID 0x1A45DFA3, size 4, five octets
C6_WitnessRoot ==
    /\ HeaderCall /\ last.res.ok /\ last.start = 0
    /\ last.res.val.id = <<0, 26, 4579235>>
    /\ last.res.val.size.value = <<0, 0, 4>>
    /\ last.res.val.length = 5 /\ pos = 5

--------------------------------------------------------------------------
(* EbmlHeader::try_from on laid-out header buffers *)

\* the most children (groups counted once) a root body is laid out from
MaxChildren == 2

\* the largest cursor position the assembly starts from
MaxStart == 4

\* the cursor positions the assembly starts from: the buffer's start, a short
\* prefix and the longest one
Starts == {0, 2, MaxStart}

Leaf(id, body, field) == [id |-> id, body |-> body, field |-> field, subs |-> <<>>]

\* an element on the wire: ID octets, a 1-octet size, the body
Encode(c) == c.id \o <<128 + Len(c.body)>> \o c.body

Group(a, b) ==
    [id |-> <<66, 129>>, body |-> Encode(a) \o Encode(b), field |-> "ext", subs |-> <<a, b>>]

ExtName(text) == Leaf(<<66, 131>>, text, "name")

ExtVersion(body) == Leaf(<<66, 132>>, body, "ext_version")

ChildTemplates ==
    { Leaf(<<66, 134>>, <<1>>, "version"),
      Leaf(<<66, 134>>, <<2>>, "version"),
      Leaf(<<66, 134>>, <<>>, "version"),
      Leaf(<<66, 247>>, <<1>>, "read_version"),
      Leaf(<<66, 242>>, <<4>>, "max_id_length"),
      Leaf(<<66, 243>>, <<8>>, "max_size_length"),
      Leaf(<<66, 130>>, <<109, 107>>, "doc_type"),
      Leaf(<<66, 130>>, <<119, 0, 0>>, "doc_type"),
      Leaf(<<66, 130>>, <<7>>, "doc_type"),
      Leaf(<<66, 135>>, <<1, 0>>, "doc_type_version"),
      Leaf(<<66, 133>>, <<2>>, "doc_type_read_version"),
      Group(ExtName(<<97>>), ExtVersion(<<1>>)),
      Group(ExtVersion(<<3>>), ExtName(<<98>>)),
      Group(ExtName(<<97>>), ExtName(<<98>>)),
      Leaf(<<236>>, <<>>, "foreign"),
      Leaf(<<191>>, <<0, 0, 0, 0>>, "foreign"),
      ExtName(<<97>>) }

\* how the root element's size is declared against the body laid out after it
RootVariants == {"exact", "unknown", "over", "huge", "cut"}

RECURSIVE Concat(_)
Concat(ss) == IF ss = <<>> THEN <<>> ELSE Head(ss) \o Concat(Tail(ss))

RootSize(n, variant) ==
    CASE variant = "unknown" -> <<255>>
      [] variant = "over" -> <<128 + n + 1>>
      [] variant = "huge" -> <<1, 255, 255, 255, 255, 255, 255, 254>>
      [] OTHER -> <<128 + n>>

Layout(s, kids, variant) ==
    LET body == Concat([i \in 1..Len(kids) |-> Encode(kids[i])])
        whole == [i \in 1..s |-> 0] \o <<26, 69, 223, 163>>
                   \o RootSize(Len(body), variant) \o body
    IN  IF variant = "cut" THEN SubSeq(whole, 1, Len(whole) - 1) ELSE whole

InitHeader ==
    /\ \E s \in Starts, kids \in SeqsUpTo(ChildTemplates, MaxChildren),
          variant \in RootVariants :
          /\ data = Layout(s, kids, variant)
          /\ pos = s
          /\ children = kids
    /\ last = NoCall
    /\ pc = "idle"
    /\ start = 0
    /\ ebml = NoElement
    /\ header = EmptyHeader
    /\ outcome = ""
    /\ reads = <<>>

\* the root header and the root ID test
HeaderStart ==
    /\ pc = "idle"
    /\ LET r == EbmlElement_try_from(data, pos)
       IN  /\ start' = pos
           /\ pos' = r.pos
           /\ header' = EmptyHeader
           /\ IF ~r.ok
              THEN pc' = "done" /\ outcome' = r.err /\ ebml' = ebml
              ELSE IF r.val.id # Ebml_ID
              THEN pc' = "done" /\ outcome' = "InvalidElement" /\ ebml' = r.val
              ELSE pc' = "scan" /\ outcome' = "" /\ ebml' = r.val
    /\ UNCHANGED <<data, last, reads, children>>

\* one iteration of the scanning loop
HeaderScan ==
    /\ pc = "scan"
    /\ scan_condition(pos, ebml)
    /\ LET r == scan_child(data, pos, header)
       IN  /\ pos' = r.pos
           /\ header' = r.header
           /\ reads' = Append(reads, [at |-> pos, id |-> r.id])
           /\ IF r.ok THEN pc' = "scan" /\ outcome' = ""
              ELSE pc' = "done" /\ outcome' = r.err
    /\ UNCHANGED <<data, last, start, ebml, children>>

\* the loop ends and the header is returned
HeaderDone ==
    /\ pc = "scan"
    /\ ~scan_condition(pos, ebml)
    /\ pc' = "done"
    /\ outcome' = "Ok"
    /\ UNCHANGED <<data, pos, last, start, ebml, header, reads, children>>

NextHeader == HeaderStart \/ HeaderScan \/ HeaderDone

SpecHeader == InitHeader /\ [][NextHeader]_vars

--------------------------------------------------------------------------
(* C7..C10: the header assembler *)

\* the root header lies whole at the start position: the EBML ID and a size VINT
RootOnWire ==
    /\ pc # "idle"
    /\ Len(data) >= start + 4
    /\ SubSeq(data, start + 1, start + 4) = <<26, 69, 223, 163>>
    /\ WireVintAt(data, start + 4)

\* body_start + size.value, from the root header on the wire
EndOffset ==
    U64Add(U64FromNat(start + 4 + WireLength(data[start + 5])),
           BigEndian(WireUnmarked(data, start + 4)))

\* C7: header assembly fails with MustBeSized whenever the root element's data
\* size is the unknown-size sentinel, and then reads no child element.
C7_MustBeSized ==
    (RootOnWire /\ WireAllOnes(data, start + 4) /\ pc = "done") =>
        /\ outcome = "MustBeSized"
        /\ reads = <<>>

\* C8: from any start offset s, a further child header is read exactly while
\* cursor.position() < end_offset = s + header_length + size.value: no child
\* header is read at or after end_offset, and the assembly does not stop
\* (returning the header) while the position is below end_offset.
C8_LoopBound ==
    RootOnWire =>
        /\ \A i \in 1..Len(reads) : U64Lt(U64FromNat(reads[i].at), EndOffset)
        /\ outcome = "Ok" => ~U64Lt(U64FromNat(pos), EndOffset)

\* the same for a cursor that starts at offset 0
C8_LoopBoundFromZero ==
    (RootOnWire /\ start = 0) =>
        /\ \A i \in 1..Len(reads) : U64Lt(U64FromNat(reads[i].at), EndOffset)
        /\ outcome = "Ok" => ~U64Lt(U64FromNat(pos), EndOffset)

\* the IDs of the header's arms, as octets on the wire
VocabularyOctets ==
    { <<66, 134>>, <<66, 247>>, <<66, 242>>, <<66, 243>>,
      <<66, 130>>, <<66, 135>>, <<66, 133>>, <<66, 129>> }

\* C9: a child header read by the scanning loop whose ID is none of EBMLVersion,
\* EBMLReadVersion, EBMLMaxIDLength, EBMLMaxSizeLength, DocType, DocTypeVersion,
\* DocTypeReadVersion, DocTypeExtension makes the assembly fail with
\* InvalidElement there and then: it is the last header read, its body is not
\* skipped, and no EbmlHeader is returned.
C9_ClosedVocabulary ==
    \A i \in 1..Len(reads) :
        (reads[i].id # None /\ WireOctets(data, reads[i].at) \notin VocabularyOctets) =>
            /\ i = Len(reads)
            /\ pc = "done"
            /\ outcome = "InvalidElement"
            /\ pos = reads[i].at + Len(WireOctets(data, reads[i].at))
                       + WireLength(data[reads[i].at + Len(WireOctets(data, reads[i].at)) + 1])

\* a Void element (0xEC) read as the second child
C9_Witness ==
    /\ Len(reads) = 2
    /\ reads[2].id # None
    /\ WireOctets(data, reads[2].at) = <<236>>
    /\ outcome = "InvalidElement"

\* a bare DocTypeExtensionName (0x4283) read as a child
C9_WitnessBareName ==
    /\ Len(reads) >= 1
    /\ reads[Len(reads)].id # None
    /\ WireOctets(data, reads[Len(reads)].at) = <<66, 131>>
    /\ outcome = "InvalidElement"

\* the text of a string body: the octets before its first zero octet
TextOf(body) ==
    LET zeros == {i \in 1..Len(body) : body[i] = 0}
        n == IF zeros = {} THEN Len(body)
             ELSE (CHOOSE i \in zeros : \A j \in zeros : i <= j) - 1
    IN  [value |-> SubSeq(body, 1, n), full_end |-> Len(body), end |-> n]

\* the value a laid-out child holds
ScalarOf(c) ==
    IF c.field \in {"doc_type", "name"} THEN TextOf(c.body)
    ELSE [value |-> BigEndian(c.body)]

\* a child the header vocabulary accepts
WellFormedChild(c) ==
    \/ /\ c.field \in {"doc_type"}
       /\ \A i \in 1..Len(c.body) : c.body[i] = 0 \/ c.body[i] \in 32..126
    \/ /\ c.field \in {"version", "read_version", "max_id_length", "max_size_length",
                       "doc_type_version", "doc_type_read_version"}
       /\ Len(c.body) <= 8
    \/ /\ c.field = "ext"
       /\ {c.subs[1].field, c.subs[2].field} = {"name", "ext_version"}

\* the last child of kids with the field, None when there is none
LastOf(kids, field) ==
    LET at == {i \in 1..Len(kids) : kids[i].field = field}
    IN  IF at = {} THEN None
        ELSE Some(ScalarOf(kids[CHOOSE i \in at : \A j \in at : j <= i]))

ExtensionOf(c) ==
    LET n == CHOOSE i \in 1..2 : c.subs[i].field = "name"
    IN  [name |-> ScalarOf(c.subs[n]), version |-> ScalarOf(c.subs[3 - n])]

ExtensionsOf(kids) ==
    LET groups == SelectSeq(kids, LAMBDA c : c.field = "ext")
    IN  IF groups = <<>> THEN None
        ELSE Some([i \in 1..Len(groups) |-> ExtensionOf(groups[i])])

ExpectedHeader(kids) ==
    [version |-> LastOf(kids, "version"),
     read_version |-> LastOf(kids, "read_version"),
     max_id_length |-> LastOf(kids, "max_id_length"),
     max_size_length |-> LastOf(kids, "max_size_length"),
     doc_type |-> LastOf(kids, "doc_type"),
     doc_type_version |-> LastOf(kids, "doc_type_version"),
     doc_type_read_version |-> LastOf(kids, "doc_type_read_version"),
     doc_type_extensions |-> ExtensionsOf(kids)]

\* the buffer is the start offset, the root header and exactly the root body
\* laid out from children, every child one the vocabulary accepts
WellFormedLayout ==
    /\ data = Layout(start, children, "exact")
    /\ \A i \in 1..Len(children) : WellFormedChild(children[i])

\* C10: when header assembly succeeds, each scalar field of the returned
\* EbmlHeader is the scalar of the last child with its ID in the root body, unset
\* when there is none, and the extension list holds one DocTypeExtension per
\* group in order of appearance, none when there is no group.
C10_Fields ==
    (outcome = "Ok" /\ WellFormedLayout) => header = ExpectedHeader(children)

\* the same for a cursor that starts at offset 0
C10_FieldsFromZero ==
    (outcome = "Ok" /\ WellFormedLayout /\ start = 0) => header = ExpectedHeader(children)

--------------------------------------------------------------------------
(* C11: the DocTypeExtension arm on a root that holds one group *)

\* the elements a DocTypeExtension group is laid out from
PairChildren ==
    { ExtName(<<97>>), ExtName(<<98, 0, 0>>), ExtName(<<>>), ExtName(<<7>>),
      ExtVersion(<<1>>), ExtVersion(<<1, 0>>), ExtVersion(<<>>),
      ExtVersion(<<1, 0, 0, 0, 0, 0, 0, 0, 2>>),
      Leaf(<<236>>, <<>>, "foreign"),
      Leaf(<<66, 134>>, <<1>>, "version") }

InitPair ==
    /\ \E s \in Starts, a \in PairChildren, b \in PairChildren, variant \in RootVariants :
          /\ data = Layout(s, <<Group(a, b)>>, variant)
          /\ pos = s
          /\ children = <<Group(a, b)>>
    /\ last = NoCall
    /\ pc = "idle"
    /\ start = 0
    /\ ebml = NoElement
    /\ header = EmptyHeader
    /\ outcome = ""
    /\ reads = <<>>

SpecPair == InitPair /\ [][NextHeader]_vars

\* the first iteration of the scanning loop has read a DocTypeExtension header,
\* and the group laid out lies whole in the buffer at that position
GroupScanned ==
    /\ Len(reads) = 1
    /\ Len(children) = 1
    /\ children[1].field = "ext"
    /\ reads[1].id = Some(DocTypeExtension_ID)
    /\ Len(data) >= reads[1].at + Len(Encode(children[1]))
    /\ SubSeq(data, reads[1].at + 1, reads[1].at + Len(Encode(children[1])))
         = Encode(children[1])

\* the buffer with the two children of the group in the other order
MirrorData ==
    LET g == children[1]
        at == reads[1].at
    IN  SubSeq(data, 1, at) \o Encode(Group(g.subs[2], g.subs[1]))
          \o SubSeq(data, at + Len(Encode(g)) + 1, Len(data))

\* the group's children are one Name and one Version, in either order
NameVersionPair ==
    {children[1].subs[1].field, children[1].subs[2].field} = {"name", "ext_version"}

\* the name is printable text (NUL padding allowed), the version at most 8 octets
PairDecodable ==
    \A i \in 1..2 :
        LET c == children[1].subs[i]
        IN  IF c.field = "name"
            THEN \A k \in 1..Len(c.body) : c.body[k] = 0 \/ c.body[k] \in 32..126
            ELSE Len(c.body) <= 8

\* C11: the two children of a DocTypeExtension group get their roles by ID: a
\* (Name, Version) group and the same group as (Version, Name) give the same
\* DocTypeExtension, the same cursor position and the same outcome, and any
\* other pair of IDs fails with InvalidElement.
C11_PairByID ==
    GroupScanned =>
        IF NameVersionPair
        THEN /\ LET mirrored == scan_child(MirrorData, reads[1].at, EmptyHeader)
                IN  /\ mirrored.pos = pos
                    /\ mirrored.header = header
                    /\ mirrored.ok = (outcome \in {"", "Ok"})
                    /\ ~mirrored.ok => mirrored.err = outcome
             /\ PairDecodable =>
                    /\ outcome \in {"", "Ok"}
                    /\ header.doc_type_extensions = Some(<<ExtensionOf(children[1])>>)
                    /\ pos = reads[1].at + Len(Encode(children[1]))
        ELSE /\ pc = "done"
             /\ outcome = "InvalidElement"
             /\ header = EmptyHeader

\* a (Version, Name) group decoded
C11_Witness ==
    /\ GroupScanned
    /\ children[1].subs[1].field = "ext_version"
    /\ children[1].subs[2].field = "name"
    /\ header.doc_type_extensions # None
    /\ outcome = "Ok"

\* a group of two Names refused
C11_WitnessTwoNames ==
    /\ GroupScanned
    /\ children[1].subs[1].field = "name"
    /\ children[1].subs[2].field = "name"
    /\ outcome = "InvalidElement"

--------------------------------------------------------------------------
(* the scalar decoders on byte ranges *)

\* the longest byte range handed to EbmlUnsignedInteger::new
MaxRange == 9

\* the longest byte range handed to EbmlString::new
MaxText == 4

IntBytes == {0, 1, 255}

\* NUL, the printable bounds 0x20 and 0x7E, their neighbours, a letter, a high octet
TextBytes == {0, 31, 32, 97, 126, 127, 200}

ScalarRanges == SeqsUpTo(IntBytes, MaxRange) \cup SeqsUpTo(TextBytes, MaxText)

InitScalar ==
    /\ data \in ScalarRanges
    /\ pos = 0
    /\ last = NoCall
    /\ IdleRest

\* EbmlUnsignedInteger::new(data)
NewUnsigned ==
    /\ last = NoCall
    /\ Call("unsigned", At(EbmlUnsignedInteger_new(data), pos))

\* EbmlString::new(data)
NewString ==
    /\ last = NoCall
    /\ Call("string", At(EbmlString_new(data), pos))

NextScalar == NewUnsigned \/ NewString

SpecScalar == InitScalar /\ [][NextScalar]_vars

UnsignedCall == last.op = "unsigned"

\* C12: EbmlUnsignedInteger::new fails, with OverMaximumSize(8), exactly on a
\* range of more than 8 octets; on 0..8 octets it returns their big-endian value
\* zero-extended on the most-significant side: the empty range is 0 and one more
\* leading 0x00 octet leaves the value as it is.
C12_Unsigned ==
    UnsignedCall =>
        /\ last.res.ok <=> Len(data) <= 8
        /\ ~last.res.ok => last.res.err = "OverMaximumSize(8)"
        /\ last.res.ok =>
              /\ last.res.val.value = BigEndian(data)
              /\ data = <<>> => last.res.val.value = U64Zero
              /\ Len(data) < 8 =>
                     EbmlUnsignedInteger_new(<<0>> \o data).val = last.res.val

\* 01 FF after two 0x00 octets is 511
C12_Witness ==
    /\ UnsignedCall
    /\ data = <<0, 0, 1, 255>>
    /\ last.res.ok
    /\ last.res.val.value = <<0, 0, 511>>

\* nine octets, the first of them 0x00, are refused
C12_WitnessOver ==
    /\ UnsignedCall
    /\ Len(data) = 9 /\ data[1] = 0
    /\ last.res.err = "OverMaximumSize(8)"

StringCall == last.op = "string"

\* the octets EbmlString::new refuses wherever they stand
NonPrintable(b) == {i \in 1..Len(b) : b[i] # 0 /\ b[i] \notin 32..126}

\* C13: EbmlString::new fails with InvalidString if and only if the range holds,
\* anywhere in it (after the first NUL too), a non-zero octet outside 0x20..0x7E;
\* otherwise text is the octets before the first zero octet, the terminator
\* offset is that octet's index (the range length when there is none), and the
\* octets after it stay out of text.
C13_String ==
    StringCall =>
        /\ ~last.res.ok <=> NonPrintable(data) # {}
        /\ ~last.res.ok => last.res.err = "InvalidString"
        /\ last.res.ok => last.res.val = TextOf(data)

\* the same with the scan ending at the first zero octet: only the octets before
\* it are looked at
C13_StringBeforeNul ==
    StringCall =>
        /\ ~last.res.ok <=> NonPrintable(SubSeq(data, 1, TextOf(data).end)) # {}
        /\ ~last.res.ok => last.res.err = "InvalidString"
        /\ last.res.ok => last.res.val = TextOf(data)

--------------------------------------------------------------------------
(* EbmlBinary::new on a cursor and a data size read from the input *)

\* the longest buffer a binary body is taken from
MaxBody == 4

BodyBytes == {17, 34}

\* data sizes as they stand on the wire: 0..5, 2 in two octets, 127 (the
\* unknown-size sentinel of one octet), 2^32 and 2^56 - 2
SizeOctets ==
    { <<128>>, <<129>>, <<130>>, <<131>>, <<132>>, <<133>>, <<64, 2>>, <<255>>,
      <<4, 1, 0, 0, 0, 0>>, <<1, 255, 255, 255, 255, 255, 255, 254>> }

InitBinary ==
    /\ \E d \in SeqsUpTo(BodyBytes, MaxBody), octets \in SizeOctets :
          /\ data = d
          /\ pos \in 0..Len(d)
          /\ children = <<octets>>
          /\ ebml = [NoElement EXCEPT !.size = get_data_size(octets, 0).val]
    /\ last = NoCall
    /\ pc = "idle"
    /\ start = 0
    /\ header = EmptyHeader
    /\ outcome = ""
    /\ reads = <<>>

\* EbmlBinary::new(&size, cursor)
NewBinary ==
    /\ last = NoCall
    /\ pos' = EbmlBinary_new(ebml.size, data, pos).pos
    /\ last' = [op |-> "binary", start |-> pos, count |-> 0,
                failed |-> ~EbmlBinary_new(ebml.size, data, pos).ok,
                res |-> EbmlBinary_new(ebml.size, data, pos)]
    /\ UNCHANGED <<data, pc, start, ebml, header, outcome, reads, children>>

NextBinary == NewBinary

SpecBinary == InitBinary /\ [][NextBinary]_vars

BinaryCall == last.op = "binary"

\* the data size n, from its octets on the wire
WireSize == BigEndian(WireUnmarked(children[1], 0))

\* fewer than n octets remain after the position the call started from
BodyShort == U64Lt(U64FromNat(Len(data) - last.start), WireSize)

\* C14: with the cursor at p <= the buffer length and a data size n,
\* EbmlBinary::new fails with NoData exactly when fewer than n octets remain
\* after p, and otherwise returns the octets [p, p + n) of the buffer, a range
\* that lies inside the buffer whatever size the input declared.
C14_Binary ==
    BinaryCall =>
        /\ ~last.res.ok <=> BodyShort
        /\ ~last.res.ok => last.res.err = "NoData"
        /\ last.res.ok =>
              /\ last.res.val.size = WireSize
              /\ last.res.val.index = last.start
              /\ U64FromNat(Len(last.res.val.data)) = WireSize
              /\ last.start + Len(last.res.val.data) <= Len(data)
              /\ \A i \in 1..Len(last.res.val.data) :
                     last.res.val.data[i] = data[last.start + i]

\* two octets taken from position 1 of a longer buffer
C14_Witness ==
    /\ BinaryCall /\ last.res.ok
    /\ last.start = 1
    /\ Len(data) = 4
    /\ last.res.val.data = SubSeq(data, 2, 3)

\* a size of 2^56 - 2 against a short buffer is refused
C14_WitnessHuge ==
    /\ BinaryCall
    /\ children[1] = <<1, 255, 255, 255, 255, 255, 255, 254>>
    /\ last.res.err = "NoData"

\* C15: a successful EbmlBinary::new on n octets leaves the cursor at p + n,
\* where p is the position before the call; a failed one leaves it at p.
C15_BinaryCursor ==
    BinaryCall =>
        IF last.res.ok THEN U64FromNat(pos) = U64Add(U64FromNat(last.start), WireSize)
        ELSE pos = last.start

\* what holds of the cursor: it stays at p, whether the call succeeds or fails
C15_BinaryCursorStays ==
    BinaryCall => pos = last.start

--------------------------------------------------------------------------
(* C16: error kinds through the header reader *)

\* the error the ID decoder reports at s, or else the one the size decoder
\* reports right after the ID; "" when both succeed
DecoderError(d, s) ==
    IF ~get_element_id(d, s).ok THEN get_element_id(d, s).err
    ELSE get_data_size(d, get_element_id(d, s).pos).err

\* C16: when the ID decoder or the size decoder fails inside read_header,
\* read_header fails with the error kind that decoder reported: NoData,
\* VarIntNoLength, VarIntEndedEarly, InvalidElementIdSize, ElementIdAllZeros,
\* ElementIdAllOnes or ElementIdLongerThanNeeded, never another kind in its place.
C16_ErrorKinds ==
    (HeaderCall /\ DecoderError(data, last.start) # "") =>
        /\ ~last.res.ok
        /\ last.res.err = DecoderError(data, last.start)
        /\ last.start = Len(data) => last.res.err = "NoData"

\* what holds instead: every failure of read_header is reported as
\* ElementIdAllOnes
C16_AlwaysAllOnes ==
    (HeaderCall /\ DecoderError(data, last.start) # "") =>
        /\ ~last.res.ok
        /\ last.res.err = "ElementIdAllOnes"

--------------------------------------------------------------------------
(* C17: termination of the header assembly *)

\* one child per kind of iteration: scalars that decode and that do not, groups
\* that pair and that do not, elements the header does not know
ScanTemplates ==
    { Leaf(<<66, 134>>, <<1>>, "version"),
      Leaf(<<66, 134>>, <<>>, "version"),
      Leaf(<<66, 130>>, <<119, 0, 0>>, "doc_type"),
      Leaf(<<66, 130>>, <<7>>, "doc_type"),
      Group(ExtVersion(<<3>>), ExtName(<<98>>)),
      Group(ExtName(<<97>>), ExtName(<<98>>)),
      Leaf(<<236>>, <<>>, "foreign") }

InitTermination ==
    /\ \E s \in Starts, kids \in SeqsUpTo(ScanTemplates, MaxChildren),
          variant \in RootVariants :
          /\ data = Layout(s, kids, variant)
          /\ pos = s
          /\ children = kids
    /\ last = NoCall
    /\ pc = "idle"
    /\ start = 0
    /\ ebml = NoElement
    /\ header = EmptyHeader
    /\ outcome = ""
    /\ reads = <<>>

\* the assembly is one synchronous call: while a step is possible it is taken
SpecHeaderFair == InitTermination /\ [][NextHeader]_vars /\ WF_vars(NextHeader)

\* the octets of the child header at the cursor: the ID's and the size's
ChildHeaderLength ==
    WireLength(data[pos + 1]) + WireLength(data[pos + WireLength(data[pos + 1]) + 1])

\* C17: header assembly terminates on every finite buffer, whatever root size
\* is declared: it reaches its end, every iteration of the scanning loop that
\* does not return an error moves the cursor forward by at least the child's
\* header length, and the iterations are never more than the buffer's octets.
C17_Terminates ==
    /\ <>(pc = "done")
    /\ [][(pc = "scan" /\ pc' = "scan") => pos' >= pos + ChildHeaderLength]_vars
    /\ [](Len(reads) <= Len(data) /\ pos <= Len(data))

\* a root declaring 2^56 - 2 octets: the loop runs to the end of the buffer and
\* fails there, after reading every child
C17_Witness ==
    /\ pc = "done"
    /\ RootOnWire
    /\ WireOctets(data, start + 4) = <<1, 255, 255, 255, 255, 255, 255, 254>>
    /\ Len(reads) >= 3
    /\ pos = Len(data)
    /\ outcome # "Ok"

=============================================================================
